---- MODULE Spec2Model ----
(***************************************************************************)
(* Model of main.py: download_audio_from_youtube (the Fetcher),            *)
(* transcribe_audio (the Transcriber) and main (the command-line glue).    *)
(*                                                                         *)
(* Strings are sequences of tokens.  A token is a piece of text that no    *)
(* other token overlaps, so the Python substring tests, split, strip,      *)
(* endswith, os.path.join and os.path.splitext act on token sequences      *)
(* exactly as they act on the text the sequence spells.                    *)
(***************************************************************************)
EXTENDS Integers, Sequences, FiniteSets

VARIABLES pc, format, output_path, transcribe, proc, listing, parsed, scanned,
          resolution, audio_file, file_readable, out, api_key,
          downloader_calls, transcribe_calls, service_calls,
          response, transcript_path, transcript

(* pc               where the run is: a step of the Fetcher, of main or of  *)
(*                  the Transcriber, "done" at the end of main, "unhandled" *)
(*                  when an exception left a function uncaught              *)
(* format, output_path, transcribe   the arguments of lines 132-135         *)
(* proc             the CompletedProcess of line 44 (a local of the Fetcher) *)
(* listing          what os.listdir gave at line 62, with mtime and kind    *)
(* parsed, scanned  whether lines 52-59, lines 62-68 have run               *)
(* resolution       the way the Fetcher ended                               *)
(* audio_file       the Fetcher's result, main's audio_file of line 142     *)
(* file_readable    whether a readable file is at the path of audio_file    *)
(* out              the messages printed so far                             *)
(* api_key          what os.getenv gave at line 146, "unread" before        *)
(* downloader_calls, transcribe_calls, service_calls   calls made so far of *)
(*                  subprocess.run, transcribe_audio and transcribe_file    *)
(* response         the service's response of line 109                      *)
(* transcript_path  the path of line 119                                    *)
(* transcript       the transcript file this run made: "absent", "empty",   *)
(*                  "partial" or "complete"                                 *)
vars == <<pc, format, output_path, transcribe, proc, listing, parsed, scanned,
          resolution, audio_file, file_readable, out, api_key,
          downloader_calls, transcribe_calls, service_calls,
          response, transcript_path, transcript>>

(* ---------------------------- bounds ---------------------------------- *)
MaxLines == 2

MaxEntries == 2

MaxMtime == 2

MaxCalls == 2

(* ---------------------------- tokens ---------------------------------- *)
EA == "[ExtractAudio]"

DL == "[download]"

DST == "Destination:"

SP == " "

DOT == "."

SEP == "/"

TSUF == "_transcript.json"

(* Python's None and a present value, for audio_file and transcript_path *)
None == <<"none">>

Some(v) == <<"some", v>>

IsSome(o) == Len(o) = 2

ValueOf(o) == o[2]

(* the value os.getenv gives for an unset variable *)
NoKey == "<None>"

(* ------------------------ Python string functions --------------------- *)
(* pat in s *)
Contains(s, pat) ==
    \E i \in 0..(Len(s) - Len(pat)) : SubSeq(s, i + 1, i + Len(pat)) = pat

(* s.find(pat) + 1: the 1-based index of the first occurrence, 0 if none *)
Find(s, pat) ==
    IF Contains(s, pat)
    THEN CHOOSE i \in 1..(Len(s) - Len(pat) + 1) :
            /\ SubSeq(s, i, i + Len(pat) - 1) = pat
            /\ \A j \in 1..(i - 1) : SubSeq(s, j, j + Len(pat) - 1) # pat
    ELSE 0

(* s.rfind(ch) + 1 for a one-token ch: the index of the last occurrence, 0 if none *)
RFind(s, ch) ==
    IF \E i \in 1..Len(s) : s[i] = ch
    THEN CHOOSE i \in 1..Len(s) : s[i] = ch /\ \A j \in (i + 1)..Len(s) : s[j] # ch
    ELSE 0

(* s.endswith(suf) *)
EndsWith(s, suf) ==
    /\ Len(suf) <= Len(s)
    /\ SubSeq(s, Len(s) - Len(suf) + 1, Len(s)) = suf

(* s.split(delim): the pieces between the occurrences of delim, left to right *)
RECURSIVE Split(_, _)
Split(s, delim) ==
    LET i == Find(s, delim)
    IN IF i = 0
       THEN <<s>>
       ELSE <<SubSeq(s, 1, i - 1)>> \o Split(SubSeq(s, i + Len(delim), Len(s)), delim)

RECURSIVE LStrip(_)
LStrip(s) == IF s # <<>> /\ Head(s) = SP THEN LStrip(Tail(s)) ELSE s

RECURSIVE RStrip(_)
RStrip(s) == IF s # <<>> /\ s[Len(s)] = SP THEN RStrip(SubSeq(s, 1, Len(s) - 1)) ELSE s

(* s.strip() *)
Strip(s) == RStrip(LStrip(s))

(* f".{format}" *)
Extension(fmt) == <<DOT, fmt>>

(* os.path.join(a, b) of posixpath *)
PathJoin(a, b) ==
    IF b # <<>> /\ Head(b) = SEP THEN b
    ELSE IF a = <<>> \/ a[Len(a)] = SEP THEN a \o b
    ELSE a \o <<SEP>> \o b

(* os.path.splitext(p)[0], wrongly cutting at the first dot of the path *)
SplitextRootFirstDot(p) ==
    LET d == Find(p, <<DOT>>) IN IF d = 0 THEN p ELSE SubSeq(p, 1, d - 1)

(* os.path.splitext(p)[0]: p up to the last dot of its last component, the *)
(* leading dots of that component not counting                              *)
SplitextRoot(p) ==
    LET sepIndex == RFind(p, SEP)
        dotIndex == RFind(p, DOT)
    IN IF /\ dotIndex > sepIndex
          /\ \E k \in (sepIndex + 1)..(dotIndex - 1) : p[k] # DOT
       THEN SubSeq(p, 1, dotIndex - 1)
       ELSE p

(* os.path.splitext(audio_file_path)[0] + "_transcript.json" *)
TranscriptPathOf(p) == SplitextRoot(p) \o <<TSUF>>

(* ------------------- the parse of the downloader's output ------------- *)
EAMarker == <<EA, SP, DST>>

EADelim == <<EA, SP, DST, SP>>

DSTMarker == <<DST>>

DSTDelim == <<DST, SP>>

(* the test of line 53 *)
IsExtractLine(line) == Contains(line, EAMarker)

(* the test of line 57 *)
IsDestinationLine(line, fmt) ==
    Contains(line, DSTMarker) /\ EndsWith(line, Extension(fmt))

(* line.split(delim)[1].strip(), an IndexError when the split gives one piece *)
SecondPiece(line, delim) ==
    LET parts == Split(line, delim)
    IN IF Len(parts) < 2
       THEN [kind |-> "raise", value |-> <<>>]
       ELSE [kind |-> "match", value |-> Strip(parts[2])]

(* one turn of the loop of lines 52-59 *)
ParseLine(line, fmt) ==
    IF IsExtractLine(line) THEN SecondPiece(line, EADelim)
    ELSE IF IsDestinationLine(line, fmt) THEN SecondPiece(line, DSTDelim)
    ELSE [kind |-> "nomatch", value |-> <<>>]

(* the for/else of lines 52-60: the first line that matches decides; kind *)
(* "else" when the loop ends without a break                               *)
RECURSIVE ParseOutput(_, _)
ParseOutput(lines, fmt) ==
    IF lines = <<>>
    THEN [kind |-> "else", value |-> <<>>]
    ELSE LET r == ParseLine(Head(lines), fmt)
         IN IF r.kind = "nomatch" THEN ParseOutput(Tail(lines), fmt) ELSE r

(* ------------------------ the directory scan -------------------------- *)
(* line 62: the names of the listing that end with the extension, in order *)
AudioFiles(entries, fmt) ==
    SelectSeq(entries, LAMBDA e : EndsWith(e.name, Extension(fmt)))

(* the place of e in a list already sorted by mtime, oldest first *)
RECURSIVE InsertAsc(_, _)
InsertAsc(e, sorted) ==
    IF sorted = <<>> THEN <<e>>
    ELSE IF Head(sorted).mtime <= e.mtime
         THEN <<Head(sorted)>> \o InsertAsc(e, Tail(sorted))
         ELSE <<e>> \o sorted

(* the place of e in a list sorted by mtime, newest first: after the ones  *)
(* at least as new, which keeps the sort stable                            *)
RECURSIVE InsertDesc(_, _)
InsertDesc(e, sorted) ==
    IF sorted = <<>> THEN <<e>>
    ELSE IF Head(sorted).mtime >= e.mtime
         THEN <<Head(sorted)>> \o InsertDesc(e, Tail(sorted))
         ELSE <<e>> \o sorted

RECURSIVE SortAscFrom(_, _)
SortAscFrom(entries, acc) ==
    IF entries = <<>> THEN acc
    ELSE SortAscFrom(Tail(entries), InsertAsc(Head(entries), acc))

RECURSIVE SortDescFrom(_, _)
SortDescFrom(entries, acc) ==
    IF entries = <<>> THEN acc
    ELSE SortDescFrom(Tail(entries), InsertDesc(Head(entries), acc))

(* the sort of line 65 without reverse=True: oldest first *)
SortByMtimeOldestFirst(entries) == SortAscFrom(entries, <<>>)

(* line 65: sort(key=getmtime, reverse=True), a stable sort, newest first *)
SortByMtime(entries) == SortDescFrom(entries, <<>>)

(* ------------------------------ inputs -------------------------------- *)
Formats == {"wav", "mp3"}

OtherFormat(fmt) == IF fmt = "wav" THEN "mp3" ELSE "wav"

OutputPaths == {<<DOT, SEP>>, <<"out", DOT, "d">>}

FileA(fmt) == <<DOT, SEP, "a", DOT, fmt>>

FileB(fmt) == <<DOT, SEP, "b", DOT, fmt>>

(* lines the downloader can print when asked for format fmt *)
Lines(fmt) ==
    { <<>>,
      <<DL, SP, "a">>,
      <<DL, SP, DST, SP>> \o FileA(OtherFormat(fmt)),
      <<DL, SP, DST, SP>> \o FileB(fmt),
      <<DL, SP, DST, SP, "a", SP, DST, SP, "b", DOT, fmt>>,
      <<DL, SP, DST, DOT, fmt>>,
      <<EA, SP, DST, SP>> \o FileA(fmt),
      <<EA, SP, DST, SP, SP>> \o FileB(fmt) \o <<SP>>,
      <<EA, SP, DST>> \o FileA(fmt),
      <<EA, SP, DST, SP>> }

(* process.stdout.split('\n'): at least one line, at most MaxLines *)
Stdouts(fmt) == UNION { [1..n -> Lines(fmt)] : n \in 1..MaxLines }

Stderrs == {"", "ERROR: Video unavailable"}

(* names an output directory can hold when format fmt is asked for *)
EntryNames(fmt) == { <<"a", DOT, fmt>>, <<DOT, fmt>>, <<"a", DOT, OtherFormat(fmt)>> }

Entries(fmt) == [name : EntryNames(fmt), mtime : 1..MaxMtime, kind : {"file", "dir"}]

(* os.listdir with each entry's mtime and kind: distinct names, any order *)
Listings(fmt) ==
    { l \in UNION { [1..n -> Entries(fmt)] : n \in 0..MaxEntries } :
        \A i, j \in 1..Len(l) : i # j => l[i].name # l[j].name }

ApiKeys == {NoKey, "", "k"}

NoProc == [returncode |-> -1, stdout |-> <<>>, stderr |-> ""]

(* ----------------------------- exceptions ----------------------------- *)
ExceptionClasses == {"CalledProcessError", "OSError", "IndexError", "Exception"}

(* the Fetcher with line 77's handler missing *)
FetchCatchesOnlyCalledProcessError(exc) == exc = "CalledProcessError"

(* lines 73 and 77: every subclass of Exception is caught in the Fetcher *)
FetchCatches(exc) == exc \in ExceptionClasses

(* the messages the handlers of lines 73-79 print *)
FetchErrorMessages(exc, stderr) ==
    IF exc = "CalledProcessError"
    THEN {"Error running yt-dlp", "Error output", stderr}
    ELSE {"Error downloading audio"}

(* subprocess.run without check=True: no exit status raises *)
RunRaisesNever(returncode) == FALSE

(* check=True of line 46: a non-zero exit status raises CalledProcessError *)
RunRaises(returncode) == returncode # 0

(* `if args.transcribe:` alone, the result not looked at *)
ShouldTranscribeFlagOnly(flag, result) == flag

(* line 145: args.transcribe and audio_file *)
ShouldTranscribe(flag, result) == flag /\ IsSome(result) /\ ValueOf(result) # <<>>

(* a credential test that lets every value through *)
KeyMissingNever(key) == FALSE

(* line 148: not api_key *)
KeyMissing(key) == key = NoKey \/ key = ""

(* after a failed download, going back to run the downloader again *)
AfterFetchFailureRetry(exc) == IF exc = "CalledProcessError" THEN "run" ELSE "fetched"

(* lines 76 and 79: a handler returns None to main, nothing is run again *)
AfterFetchFailure(exc) == "fetched"

(* ------------------------------- Init --------------------------------- *)
Init ==
    /\ pc = "makedirs"
    /\ format \in Formats
    /\ output_path \in OutputPaths
    /\ transcribe \in BOOLEAN
    /\ proc = NoProc
    /\ listing = <<>>
    /\ parsed = FALSE
    /\ scanned = FALSE
    /\ resolution = "pending"
    /\ audio_file = None
    /\ file_readable = FALSE
    /\ out = {}
    /\ api_key = "unread"
    /\ downloader_calls = 0
    /\ transcribe_calls = 0
    /\ service_calls = 0
    /\ response = "none"
    /\ transcript_path = None
    /\ transcript = "absent"

(* ---------------------------- the Fetcher ----------------------------- *)
(* a raise inside the try of lines 23-71: the handler prints and returns   *)
(* None, or the exception leaves the function                              *)
FetchRaise(exc, how, stderr) ==
    /\ IF FetchCatches(exc)
       THEN /\ pc' = AfterFetchFailure(exc)
            /\ out' = out \cup FetchErrorMessages(exc, stderr)
       ELSE /\ pc' = "unhandled"
            /\ out' = out
    /\ resolution' = how
    /\ audio_file' = None
    /\ file_readable' = FALSE

(* lines 25-41: os.makedirs, the command, the first print *)
MakeDirs ==
    /\ pc = "makedirs"
    /\ \/ /\ pc' = "run"
          /\ out' = out \cup {"Downloading audio from"}
          /\ UNCHANGED <<resolution, audio_file, file_readable>>
       \/ FetchRaise("OSError", "mkdir_failed", "")
    /\ UNCHANGED <<format, output_path, transcribe, proc, listing, parsed, scanned,
                   api_key, downloader_calls, transcribe_calls, service_calls,
                   response, transcript_path, transcript>>

(* lines 44-49: subprocess.run(command, check=True, capture_output=True) *)
RunDownloader ==
    /\ pc = "run"
    /\ downloader_calls < MaxCalls
    /\ downloader_calls' = downloader_calls + 1
    /\ \/ /\ FetchRaise("OSError", "launch_failed", "")
          /\ UNCHANGED proc
       \/ \E rc \in {0, 1}, so \in Stdouts(format), se \in Stderrs :
            /\ rc = 0 => se = ""
            /\ proc' = [returncode |-> rc, stdout |-> so, stderr |-> se]
            /\ IF RunRaises(rc)
               THEN FetchRaise("CalledProcessError", "proc_failed", se)
               ELSE /\ pc' = "parse"
                    /\ UNCHANGED <<out, resolution, audio_file, file_readable>>
    /\ UNCHANGED <<format, output_path, transcribe, listing, parsed, scanned,
                   api_key, transcribe_calls, service_calls,
                   response, transcript_path, transcript>>

(* the text that follows the first marker of a line, trimmed: the path the *)
(* downloader names on that line                                           *)
DestinationOf(line) ==
    LET m == IF Contains(line, EAMarker) THEN EAMarker ELSE DSTMarker
        i == Find(line, m)
    IN Strip(SubSeq(line, i + Len(m), Len(line)))

(* the first line of the output to which the loop of lines 52-59 reacts *)
RECURSIVE FirstMatchingLine(_, _)
FirstMatchingLine(lines, fmt) ==
    IF ParseLine(Head(lines), fmt).kind # "nomatch" THEN Head(lines)
    ELSE FirstMatchingLine(Tail(lines), fmt)

(* the downloader named the file it wrote on its first destination line:   *)
(* a readable file is at path exactly when path is the text of that line    *)
FileWrittenAt(path, lines, fmt) ==
    path # <<>> /\ path = DestinationOf(FirstMatchingLine(lines, fmt))

(* lines 51-60 and 70-71: the loop over the lines of the output; a match   *)
(* is printed and returned                                                 *)
ParseStdout ==
    /\ pc = "parse"
    /\ parsed' = TRUE
    /\ LET r == ParseOutput(proc.stdout, format)
       IN CASE r.kind = "match" ->
                 /\ pc' = "fetched"
                 /\ resolution' = "parsed"
                 /\ audio_file' = Some(r.value)
                 /\ file_readable' = FileWrittenAt(r.value, proc.stdout, format)
                 /\ out' = out \cup {"Audio downloaded successfully to"}
            [] r.kind = "raise" -> FetchRaise("IndexError", "parse_error", "")
            [] OTHER ->
                 /\ pc' = "scan"
                 /\ UNCHANGED <<resolution, audio_file, file_readable, out>>
    /\ UNCHANGED <<format, output_path, transcribe, proc, listing, scanned,
                   api_key, downloader_calls, transcribe_calls, service_calls,
                   response, transcript_path, transcript>>

(* lines 61-71: the scan of the output directory *)
ScanDirectory ==
    /\ pc = "scan"
    /\ scanned' = TRUE
    /\ \/ /\ FetchRaise("OSError", "scan_error", "")
          /\ UNCHANGED listing
       \/ \E l \in Listings(format) :
            /\ listing' = l
            /\ LET audio_files == AudioFiles(l, format)
               IN IF audio_files # <<>>
                  THEN LET newest == SortByMtime(audio_files)[1]
                       IN /\ pc' = "fetched"
                          /\ resolution' = "scanned"
                          /\ audio_file' = Some(PathJoin(output_path, newest.name))
                          /\ file_readable' = (newest.kind = "file")
                          /\ out' = out \cup {"Audio downloaded successfully to"}
                  ELSE FetchRaise("Exception", "not_found", "")
    /\ UNCHANGED <<format, output_path, transcribe, proc, parsed,
                   api_key, downloader_calls, transcribe_calls, service_calls,
                   response, transcript_path, transcript>>

(* ------------------------------- main --------------------------------- *)
(* lines 142-152: the Fetcher has returned (its locals are gone); main     *)
(* reads the credential and calls the Transcriber, or ends                 *)
MainAfterFetch ==
    /\ pc = "fetched"
    /\ proc' = NoProc
    /\ listing' = <<>>
    /\ IF ShouldTranscribe(transcribe, audio_file)
       THEN \E key \in ApiKeys :
              /\ api_key' = key
              /\ IF KeyMissing(key)
                 THEN /\ pc' = "done"
                      /\ out' = out \cup {"api_key printed",
                                          "Error: DEEPGRAM_API_KEY environment variable is required",
                                          "Please set it using: export DEEPGRAM_API_KEY"}
                      /\ UNCHANGED transcribe_calls
                 ELSE /\ pc' = "t_client"
                      /\ out' = out \cup {"api_key printed"}
                      /\ transcribe_calls' = transcribe_calls + 1
       ELSE /\ pc' = "done"
            /\ UNCHANGED <<api_key, out, transcribe_calls>>
    /\ UNCHANGED <<format, output_path, transcribe, parsed, scanned, resolution,
                   audio_file, file_readable, downloader_calls, service_calls,
                   response, transcript_path, transcript>>

(* --------------------------- the Transcriber -------------------------- *)
(* the handler of lines 125-126 *)
TranscribeRaise ==
    /\ pc' = "done"
    /\ out' = out \cup {"Error during transcription"}

TranscriberFrame ==
    UNCHANGED <<format, output_path, transcribe, proc, listing, parsed, scanned,
                resolution, audio_file, file_readable, api_key, downloader_calls,
                transcribe_calls>>

(* lines 91-100: the client and the options *)
CreateClient ==
    /\ pc = "t_client"
    /\ \/ /\ pc' = "t_open"
          /\ UNCHANGED out
       \/ TranscribeRaise
    /\ UNCHANGED <<service_calls, response, transcript_path, transcript>>
    /\ TranscriberFrame

(* lines 103-106: open(audio_file_path, "rb") *)
OpenAudio ==
    /\ pc = "t_open"
    /\ IF IsSome(audio_file) /\ file_readable
       THEN /\ pc' = "t_call"
            /\ UNCHANGED out
       ELSE TranscribeRaise
    /\ UNCHANGED <<service_calls, response, transcript_path, transcript>>
    /\ TranscriberFrame

(* lines 109-112: the request to the service *)
CallService ==
    /\ pc = "t_call"
    /\ service_calls < MaxCalls
    /\ service_calls' = service_calls + 1
    /\ \/ /\ \E r \in {"ok", "malformed"} : response' = r
          /\ pc' = "t_print"
          /\ UNCHANGED out
       \/ /\ TranscribeRaise
          /\ UNCHANGED response
    /\ UNCHANGED <<transcript_path, transcript>>
    /\ TranscriberFrame

(* lines 115-116: response.to_json and the print of it *)
PrintResponse ==
    /\ pc = "t_print"
    /\ IF response = "ok"
       THEN /\ pc' = "t_create"
            /\ out' = out \cup {"Transcription Results", "response json"}
       ELSE TranscribeRaise
    /\ UNCHANGED <<service_calls, response, transcript_path, transcript>>
    /\ TranscriberFrame

(* lines 119-120: the transcript's path and open(transcript_path, "w") *)
CreateTranscript ==
    /\ pc = "t_create"
    /\ transcript_path' = Some(TranscriptPathOf(ValueOf(audio_file)))
    /\ \/ /\ transcript' = "empty"
          /\ pc' = "t_write"
          /\ UNCHANGED out
       \/ /\ TranscribeRaise
          /\ UNCHANGED transcript
    /\ UNCHANGED <<service_calls, response>>
    /\ TranscriberFrame

(* lines 121-123: f.write(response.to_json(indent=4)), the close, the print *)
WriteTranscript ==
    /\ pc = "t_write"
    /\ \/ /\ transcript' = "complete"
          /\ pc' = "done"
          /\ out' = out \cup {"Transcript saved to"}
       \/ /\ \E t \in {"empty", "partial"} : transcript' = t
          /\ TranscribeRaise
    /\ UNCHANGED <<service_calls, response, transcript_path>>
    /\ TranscriberFrame

Next ==
    \/ MakeDirs
    \/ RunDownloader
    \/ ParseStdout
    \/ ScanDirectory
    \/ MainAfterFetch
    \/ CreateClient
    \/ OpenAudio
    \/ CallService
    \/ PrintResponse
    \/ CreateTranscript
    \/ WriteTranscript

Spec == Init /\ [][Next]_vars

(* ============================== claims ================================ *)
(* a line the claims call a destination line: it holds the ExtractAudio    *)
(* marker, or it holds "Destination:" and ends with the extension          *)
MatchesMarker(line, fmt) ==
    \/ Contains(line, EAMarker)
    \/ Contains(line, DSTMarker) /\ EndsWith(line, Extension(fmt))

SomeLineMatches == \E i \in 1..Len(proc.stdout) : MatchesMarker(proc.stdout[i], format)

FirstMatchIndex ==
    CHOOSE i \in 1..Len(proc.stdout) :
        /\ MatchesMarker(proc.stdout[i], format)
        /\ \A j \in 1..(i - 1) : ~MatchesMarker(proc.stdout[j], format)

SomeEntryMatches == \E i \in 1..Len(listing) : EndsWith(listing[i].name, Extension(format))

(* C1: whenever the downloader exited with status zero and some line of   *)
(* its output matches a destination marker, the Fetcher returns the path   *)
(* that the first matching line names, whatever follows that line.         *)
C1_FirstMatchWins ==
    (pc = "fetched" /\ proc.returncode = 0 /\ SomeLineMatches)
        => audio_file = Some(DestinationOf(proc.stdout[FirstMatchIndex]))

(* C2: when the downloader exited with status zero, no line matches a     *)
(* marker and the directory listing holds an entry ending with the         *)
(* extension, the Fetcher returns the output directory joined with the     *)
(* name of an entry whose mtime is the greatest among those entries.       *)
C2_FallbackNewest ==
    (pc = "fetched" /\ proc.returncode = 0 /\ ~SomeLineMatches /\ SomeEntryMatches)
        => \E i \in 1..Len(listing) :
              /\ EndsWith(listing[i].name, Extension(format))
              /\ \A j \in 1..Len(listing) :
                    EndsWith(listing[j].name, Extension(format))
                        => listing[j].mtime <= listing[i].mtime
              /\ audio_file = Some(PathJoin(output_path, listing[i].name))

(* the fallback chose among two candidates of different age, the newest    *)
(* not listed first                                                        *)
C2_Witness ==
    /\ pc = "fetched"
    /\ resolution = "scanned"
    /\ Len(listing) = 2
    /\ EndsWith(listing[1].name, Extension(format))
    /\ EndsWith(listing[2].name, Extension(format))
    /\ listing[1].mtime < listing[2].mtime
    /\ audio_file = Some(PathJoin(output_path, listing[2].name))

(* C3: when no line matches a marker and the directory holds no entry     *)
(* ending with the extension, the Fetcher returns None without an          *)
(* exception leaving it, and main never calls transcribe_audio in that     *)
(* run, -t given or not.                                                   *)
C3_NotFoundIsAbsent ==
    /\ (pc = "fetched" /\ scanned /\ ~SomeLineMatches /\ ~SomeEntryMatches)
           => /\ audio_file = None
              /\ resolution \in {"not_found", "scan_error"}
    /\ resolution = "not_found"
           => /\ audio_file = None
              /\ "Error downloading audio" \in out
              /\ transcribe_calls = 0
              /\ api_key = "unread"
              /\ pc \in {"fetched", "done"}

(* a run with -t ended after the scan found nothing *)
C3_Witness ==
    /\ pc = "done"
    /\ transcribe
    /\ resolution = "not_found"
    /\ audio_file = None

(* C4: when the downloader exits with a non-zero status the Fetcher       *)
(* returns None, the output is not parsed and the directory not scanned,   *)
(* the captured error stream is printed, and main neither reads the        *)
(* credential nor calls transcribe_audio.                                  *)
C4_NonZeroExitHalts ==
    /\ (pc = "fetched" /\ proc.returncode > 0)
           => /\ resolution = "proc_failed"
              /\ proc.stderr \in out
              /\ "Error output" \in out
    /\ resolution = "proc_failed"
           => /\ audio_file = None
              /\ ~parsed
              /\ ~scanned
              /\ transcribe_calls = 0
              /\ service_calls = 0
              /\ api_key = "unread"
              /\ pc \in {"fetched", "done"}

(* a run with -t ended after the downloader failed *)
C4_Witness ==
    /\ pc = "done"
    /\ transcribe
    /\ resolution = "proc_failed"
    /\ "ERROR: Video unavailable" \in out

(* C5: with -t set, a path fetched and the credential variable unset, the *)
(* step that reads the credential ends the run: transcribe_audio is not    *)
(* called, the service is not contacted, no transcript is written, the     *)
(* missing-credential message is printed, and the Fetcher's result and     *)
(* the audio file stay as they were.                                       *)
C5_MissingCredentialSkips ==
    [][(/\ pc = "fetched"
        /\ transcribe
        /\ IsSome(audio_file)
        /\ ValueOf(audio_file) # <<>>
        /\ api_key' = NoKey)
           => /\ pc' = "done"
              /\ transcribe_calls' = 0
              /\ service_calls' = 0
              /\ transcript' = "absent"
              /\ transcript_path' = None
              /\ "Error: DEEPGRAM_API_KEY environment variable is required" \in out'
              /\ audio_file' = audio_file
              /\ file_readable' = file_readable]_vars

(* a run with -t and a fetched file ended at the missing credential *)
C5_Witness ==
    /\ pc = "done"
    /\ transcribe
    /\ resolution \in {"parsed", "scanned"}
    /\ api_key = NoKey
    /\ "Please set it using: export DEEPGRAM_API_KEY" \in out

(* C6: whenever the Transcriber reports a failure, no transcript file has *)
(* been created or written in that run, complete or partial.               *)
C6_NoTranscriptOnFailure ==
    "Error during transcription" \in out => transcript = "absent"

(* the directory part of a path: up to its last separator *)
DirPart(p) == SubSeq(p, 1, RFind(p, SEP))

(* the final extension of a path: from the last dot of its last component  *)
(* to the end, when something other than dots comes before that dot        *)
FinalExtension(p) ==
    LET base == SubSeq(p, RFind(p, SEP) + 1, Len(p))
        d == RFind(base, DOT)
    IN IF d > 1 /\ \E j \in 1..(d - 1) : base[j] # DOT
       THEN SubSeq(base, d, Len(base))
       ELSE <<>>

(* C7: the transcript's path is the audio path with its final extension   *)
(* removed and "_transcript.json" appended, in the audio file's directory; *)
(* /tmp/song.wav gives /tmp/song_transcript.json.                          *)
C7_TranscriptPath ==
    /\ IsSome(transcript_path)
          => LET p == ValueOf(audio_file)
                 tp == ValueOf(transcript_path)
                 stem == SubSeq(tp, 1, Len(tp) - 1)
             IN /\ tp[Len(tp)] = TSUF
                /\ stem \o FinalExtension(p) = p
                /\ DirPart(tp) = DirPart(p)
    /\ TranscriptPathOf(<<SEP, "tmp", SEP, "song", DOT, "wav">>)
          = <<SEP, "tmp", SEP, "song", TSUF>>

(* a transcript path was computed for a file in a directory whose name     *)
(* holds a dot                                                             *)
C7_Witness ==
    /\ IsSome(transcript_path)
    /\ transcript = "complete"
    /\ Contains(DirPart(ValueOf(audio_file)), <<"out", DOT, "d">>)

(* C8: no exception leaves the Fetcher or the Transcriber: a failure in   *)
(* the Fetcher gives None and a message, a failure in the Transcriber a    *)
(* message, and every position of a run short of the normal end of main    *)
(* has a next step.                                                        *)
C8_NoUnhandledFault ==
    /\ pc # "unhandled"
    /\ resolution \in {"mkdir_failed", "launch_failed", "proc_failed",
                       "parse_error", "scan_error", "not_found"}
           => /\ audio_file = None
              /\ out \cap {"Error running yt-dlp", "Error downloading audio"} # {}
    /\ (pc = "done" /\ transcribe_calls > 0 /\ transcript # "complete")
           => "Error during transcription" \in out
    /\ pc \in {"makedirs", "run", "parse", "scan", "fetched", "t_client", "t_open",
               "t_call", "t_print", "t_create", "t_write", "done"}
    /\ pc = "run" => downloader_calls < MaxCalls
    /\ pc = "t_call" => service_calls < MaxCalls

(* the IndexError of a marker with no path after it was caught *)
C8_Witness ==
    /\ pc = "done"
    /\ resolution = "parse_error"
    /\ audio_file = None
    /\ "Error downloading audio" \in out

(* C9: when transcribe_audio is called, the Fetcher has returned a path   *)
(* and a readable file exists at that path.                                *)
C9_FileExistsAtInvocation ==
    pc = "t_client" => (IsSome(audio_file) /\ file_readable)

(* C10 as stated: in every finished run the downloader was invoked        *)
(* exactly once and the service called at most once.                       *)
C10_ExactlyOnce ==
    pc = "done" => (downloader_calls = 1 /\ service_calls <= 1)

(* C10 as amended: the downloader is invoked at most once, exactly once   *)
(* when os.makedirs succeeded and not at all when it raised; the service   *)
(* is called at most once.                                                 *)
C10_AtMostOnce ==
    /\ downloader_calls <= 1
    /\ service_calls <= 1
    /\ pc \notin {"makedirs", "run"}
          => downloader_calls = (IF resolution = "mkdir_failed" THEN 0 ELSE 1)

(* a run in which the downloader failed ended with one invocation *)
C10_Witness ==
    /\ pc = "done"
    /\ resolution = "proc_failed"
    /\ downloader_calls = 1

====
